---- MODULE Spec2Model ----
(***************************************************************************)
(* Model of the narwhal primary's CertificateWaiter                        *)
(* (narwhal/primary/src/certificate_waiter.rs).                            *)
(*                                                                         *)
(* The waiter is an event loop (CertificateWaiter::run) selecting over     *)
(*   - certificates with missing parents (rx_certificate_waiter),          *)
(*   - the end of a fetch task (fetch_certificates_task.next()),           *)
(*   - reconfiguration notifications (rx_reconfigure, a watch channel).    *)
(* kick() spawns the fetch task, which probes the peers                    *)
(* (fetch_certificates_helper) and hands the response to the core over the *)
(* loopback channel (process_certificates_helper).                         *)
(*                                                                         *)
(* A step of the model is what runs between two suspension points of the   *)
(* task it belongs to: a whole select! arm of the loop, or the code of the *)
(* fetch task from one await to the next.                                  *)
(***************************************************************************)
EXTENDS Integers, Sequences, FiniteSets, TLC

\* ------------------------------------------------------------------ bounds
MaxRound == 2            \* rounds of certificates and of the store: 0..MaxRound
MaxEpoch == 1            \* epochs 0..MaxEpoch
MaxConsensusRound == 2   \* values of the consensus-round watch channel
LoopbackCapacity == 1    \* capacity of the bounded loopback channel
MaxStoredRound == 4      \* rounds of the store of the peer-side handler: 0..MaxStoredRound

\* --------------------------------------------------------- program constants
MAX_CERTIFICATES_TO_FETCH == 1000
gc_depth == 1

\* ------------------------------------------------------------- input domains
Authorities == {1, 2, 3}           \* public keys
Name == 1                          \* state.name, the identity of this primary
StoreAuthors == {3}                \* authorities whose stored rounds advance
Rounds == 0..MaxRound
Epochs == 0..MaxEpoch
\* The authorities of the committee published for epoch e.
Members(e) == IF e % 2 = 0 THEN {1, 2, 3} ELSE {1, 2}
\* The certificates the Synchronizer can send: verified, so authored by an
\* authority of the committee of their epoch.
Certificates ==
    {c \in [author : Authorities \ {Name}, round : 1..MaxRound, epoch : Epochs] :
        c.author \in Members(c.epoch)}
\* Sizes of the responses a peer can give.
ResponseSizes == {0, MAX_CERTIFICATES_TO_FETCH, MAX_CERTIFICATES_TO_FETCH + 1}

VARIABLES
    committee,       \* self.committee: [epoch, members]
    targets,         \* self.targets: authority -> round (partial)
    targetEpoch,     \* history: epoch of the certificate that installed each target
    tasks,           \* the tasks spawned by kick() and not yet taken out of
                     \* self.fetch_certificates_task by next(): id -> task
    running,         \* TRUE while run() has not returned
    committed,       \* the store read by last_committed_round
    consensusRound,  \* value of rx_consensus_round_updates
    reconfigure,     \* the watch channel rx_reconfigure: [msg, changed]
    loopback,        \* messages queued in tx_certificates_loopback
    loopbackClosed,  \* the receiver of the loopback channel was dropped
    held,            \* messages the core has received and whose `done` it
                     \* has neither signalled nor dropped
    last,            \* history: the event run() handled in the last step, if any
    certificate_store, \* peer-side handler: author -> highest round stored
    req,             \* peer-side handler: the FetchCertificatesRequest received
    resp             \* peer-side handler: the FetchCertificatesResponse returned

waiterVars == <<committee, targets, targetEpoch, tasks, running, committed,
                consensusRound, reconfigure, loopback, loopbackClosed, held,
                last>>

\* The peer-side handler of fetch_certificates, exercised on its own.
peerVars == <<certificate_store, req, resp>>

vars == <<waiterVars, peerVars>>

loopVars == <<committee, targets, targetEpoch, running>>
envVars  == <<committed, consensusRound>>
coreVars == <<loopback, loopbackClosed, held>>

\* ------------------------------------------------------------------ helpers
Max(a, b) == IF a >= b THEN a ELSE b

Empty == [a \in {} |-> 0]

Restrict(f, S) == [a \in S |-> f[a]]

Insert(f, k, v) == [a \in DOMAIN f \cup {k} |-> IF a = k THEN v ELSE f[a]]

Shuffles(S) ==
    {p \in [1..Cardinality(S) -> S] :
        \A i, j \in 1..Cardinality(S) : i # j => p[i] # p[j]}

NoCommittee == [epoch |-> 0, members |-> {}]

NoRequest == [exclusive_lower_bounds |-> Empty, max_items |-> 0]

NoEvent == [kind |-> "none", launched |-> FALSE]

\* -------------------------------------------------------------- the waiter

\* CertificateWaiter::gc_round: saturating_sub on u64.
gc_round == Max(0, consensusRound - gc_depth)

\* CertificateWaiter::last_committed_round, when the store read succeeds.
last_committed_round(a) == committed[a]

\* CertificateWaiter::all_committed_rounds, when every store read succeeds.
all_committed_rounds == [a \in committee.members |-> last_committed_round(a)]

\* committed_rounds of kick(): all_committed_rounds floored at gc_round.
committed_rounds == [a \in committee.members |-> Max(all_committed_rounds[a], gc_round)]

\* Mutation of Retained: the retain predicate keeps a target the store has
\* already reached (<= for <).
Retained_OrEqual(tg, a) ==
    LET committed_round == IF a \in DOMAIN committed_rounds
                           THEN committed_rounds[a] ELSE gc_round
    IN  committed_round <= tg[a]

\* The predicate of self.targets.retain in kick().
Retained(tg, a) ==
    LET committed_round == IF a \in DOMAIN committed_rounds
                           THEN committed_rounds[a] ELSE gc_round
    IN  committed_round < tg[a]

\* Mutation of NewTask: the request is built from the stored rounds without
\* the floor at gc_round.
NewTask_NoFloor ==
    [pc        |-> "spawned",
     committee |-> committee,
     request   |-> [exclusive_lower_bounds |-> all_committed_rounds,
                    max_items |-> MAX_CERTIFICATES_TO_FETCH],
     peers     |-> <<>>,
     idx       |-> 0,
     fut       |-> {},
     response  |-> -1,
     result    |-> "none"]

\* The task spawned by kick(), before it first runs: it owns clones of the
\* committee and of committed_rounds.
NewTask ==
    [pc        |-> "spawned",
     committee |-> committee,
     request   |-> [exclusive_lower_bounds |-> committed_rounds,
                    max_items |-> MAX_CERTIFICATES_TO_FETCH],
     peers     |-> <<>>,
     idx       |-> 0,
     fut       |-> {},
     response  |-> -1,
     result    |-> "none"]

\* A handle for a newly spawned task.
FreshId(ts) == CHOOSE i \in 1..(Cardinality(DOMAIN ts) + 1) : i \notin DOMAIN ts

\* self.fetch_certificates_task.len() for the tasks ts: the pending sentinel
\* pushed by spawn() and the tasks.
TaskLen(ts) == 1 + Cardinality(DOMAIN ts)

\* Mutation of kick: the `if self.targets.is_empty() { return; }` is missing,
\* so that a task is spawned even when no target is left.
kick_NoEmptyCheck(tg, te, ts, readOk) ==
    IF ~readOk
    THEN [targets |-> tg, targetEpoch |-> te, tasks |-> ts, launched |-> FALSE]
    ELSE LET kept == {a \in DOMAIN tg : Retained(tg, a)}
         IN  [targets |-> Restrict(tg, kept),
              targetEpoch |-> Restrict(te, kept),
              tasks |-> Insert(ts, FreshId(ts), NewTask),
              launched |-> TRUE]

\* Mutation of kick: a failed store read is taken for an empty store, and
\* the targets are cleared.
kick_ClearsOnError(tg, te, ts, readOk) ==
    LET kept == IF readOk THEN {a \in DOMAIN tg : Retained(tg, a)} ELSE {}
    IN  IF kept = {}
        THEN [targets |-> Empty, targetEpoch |-> Empty, tasks |-> ts,
              launched |-> FALSE]
        ELSE [targets |-> Restrict(tg, kept),
              targetEpoch |-> Restrict(te, kept),
              tasks |-> Insert(ts, FreshId(ts), NewTask),
              launched |-> TRUE]

\* Mutation of kick: self.targets.retain is missing, so that a task is
\* spawned for whatever targets there are.
kick_NoRetain(tg, te, ts, readOk) ==
    IF ~readOk \/ tg = Empty
    THEN [targets |-> tg, targetEpoch |-> te, tasks |-> ts, launched |-> FALSE]
    ELSE [targets |-> tg, targetEpoch |-> te,
          tasks |-> Insert(ts, FreshId(ts), NewTask), launched |-> TRUE]

\* CertificateWaiter::kick on targets tg (with history te) and tasks ts;
\* readOk: all_committed_rounds() returned Ok.
kick(tg, te, ts, readOk) ==
    IF ~readOk
    THEN [targets |-> tg, targetEpoch |-> te, tasks |-> ts, launched |-> FALSE]
    ELSE LET kept == {a \in DOMAIN tg : Retained(tg, a)}
         IN  IF kept = {}
             THEN [targets |-> Empty, targetEpoch |-> Empty, tasks |-> ts,
                   launched |-> FALSE]
             ELSE [targets |-> Restrict(tg, kept),
                   targetEpoch |-> Restrict(te, kept),
                   tasks |-> Insert(ts, FreshId(ts), NewTask),
                   launched |-> TRUE]

\* Mutation of KickIfIdle: kick() is called without looking at the task
\* collection.
KickIfIdle_Unguarded(tg, te, ts, readOk) == kick(tg, te, ts, readOk)

\* Mutation of KickIfIdle: the sentinel is not counted (len() <= 2).
KickIfIdle_OffByOne(tg, te, ts, readOk) ==
    IF TaskLen(ts) <= 2
    THEN kick(tg, te, ts, readOk)
    ELSE [targets |-> tg, targetEpoch |-> te, tasks |-> ts, launched |-> FALSE]

\* `if self.fetch_certificates_task.len() == 1 { self.kick(); }`
KickIfIdle(tg, te, ts, readOk) ==
    IF TaskLen(ts) = 1
    THEN kick(tg, te, ts, readOk)
    ELSE [targets |-> tg, targetEpoch |-> te, tasks |-> ts, launched |-> FALSE]

\* The missing-parent arm drops a certificate of another epoch.
StaleEpoch(c) == c.epoch # committee.epoch

\* Mutation of Accepts: the epoch of the certificate is not compared.
Accepts_AnyEpoch(tg, c, readOk) ==
    /\ ~(c.author \in DOMAIN tg /\ c.round <= tg[c.author])
    /\ readOk
    /\ ~(last_committed_round(c.author) >= c.round)

\* Mutation of Accepts: the existing target is not compared.
Accepts_NoDedup(tg, c, readOk) ==
    /\ ~StaleEpoch(c)
    /\ readOk
    /\ ~(last_committed_round(c.author) >= c.round)

\* The missing-parent arm reaches self.targets.insert for certificate c when
\* the targets are tg; readOk: last_committed_round() returned Ok.
Accepts(tg, c, readOk) ==
    /\ ~StaleEpoch(c)
    /\ ~(c.author \in DOMAIN tg /\ c.round <= tg[c.author])
    /\ readOk
    /\ ~(last_committed_round(c.author) >= c.round)

\* The arm `Some(certificate) = self.rx_certificate_waiter.recv()` of run()
\* as a function of the waiter's fields.
MissingParent(tg, te, ts, c, readOk, kickOk) ==
    IF Accepts(tg, c, readOk)
    THEN LET k == KickIfIdle(Insert(tg, c.author, c.round),
                             Insert(te, c.author, c.epoch), ts, kickOk)
         IN  [targets |-> k.targets, targetEpoch |-> k.targetEpoch,
              tasks |-> k.tasks, kind |-> "inserted", launched |-> k.launched]
    ELSE [targets |-> tg, targetEpoch |-> te, tasks |-> ts,
          kind |-> IF StaleEpoch(c) THEN "stale_epoch" ELSE "dropped",
          launched |-> FALSE]

\* The outcomes of the store reads are inputs of a step only when the step
\* reads the store: readOk when last_committed_round is called, kickOk when
\* kick() is.
Read(tg, ts, c, readOk, kickOk) ==
    /\ ~readOk => /\ ~StaleEpoch(c)
                  /\ ~(c.author \in DOMAIN tg /\ c.round <= tg[c.author])
    /\ ~kickOk => Accepts(tg, c, readOk) /\ TaskLen(ts) = 1

\* run(): Some(certificate) = self.rx_certificate_waiter.recv()
HandleCertificate(c, readOk, kickOk) ==
    /\ running
    /\ Read(targets, tasks, c, readOk, kickOk)
    /\ LET r == MissingParent(targets, targetEpoch, tasks, c, readOk, kickOk)
       IN  /\ targets' = r.targets
           /\ targetEpoch' = r.targetEpoch
           /\ tasks' = r.tasks
           /\ last' = [kind |-> r.kind, launched |-> r.launched]
    /\ UNCHANGED <<committee, running, reconfigure>>
    /\ UNCHANGED envVars
    /\ UNCHANGED coreVars
    /\ UNCHANGED peerVars

\* Mutation of HandleTaskEnd: the finished task is taken out and kick() is
\* not called.
HandleTaskEnd_NoKick(id, kickOk) ==
    /\ running
    /\ id \in DOMAIN tasks
    /\ tasks[id].pc = "finished"
    /\ kickOk
    /\ tasks' = Restrict(tasks, DOMAIN tasks \ {id})
    /\ last' = [kind |-> "task_end", launched |-> FALSE]
    /\ UNCHANGED <<committee, targets, targetEpoch, running, reconfigure>>
    /\ UNCHANGED envVars
    /\ UNCHANGED coreVars
    /\ UNCHANGED peerVars

\* run(): _ = self.fetch_certificates_task.next()
HandleTaskEnd(id, kickOk) ==
    /\ running
    /\ id \in DOMAIN tasks
    /\ tasks[id].pc = "finished"
    /\ ~kickOk => TaskLen(Restrict(tasks, DOMAIN tasks \ {id})) = 1
    /\ LET k == KickIfIdle(targets, targetEpoch,
                           Restrict(tasks, DOMAIN tasks \ {id}), kickOk)
       IN  /\ targets' = k.targets
           /\ targetEpoch' = k.targetEpoch
           /\ tasks' = k.tasks
           /\ last' = [kind |-> "task_end", launched |-> k.launched]
    /\ UNCHANGED <<committee, running, reconfigure>>
    /\ UNCHANGED envVars
    /\ UNCHANGED coreVars
    /\ UNCHANGED peerVars

\* Mutation of HandleReconfigure: a change of committee clears the task
\* collection.
HandleReconfigure_CancelsTask ==
    /\ running
    /\ reconfigure.changed
    /\ reconfigure' = [reconfigure EXCEPT !.changed = FALSE]
    /\ LET message == reconfigure.msg
       IN  CASE message.type = "NewEpoch" ->
                    /\ committee' = message.committee
                    /\ targets' = Empty
                    /\ targetEpoch' = Empty
                    /\ tasks' = Empty
                    /\ UNCHANGED running
              [] message.type = "UpdateCommittee" ->
                    /\ committee' = message.committee
                    /\ tasks' = Empty
                    /\ UNCHANGED <<targets, targetEpoch, running>>
              [] message.type = "Shutdown" ->
                    /\ running' = FALSE
                    /\ targets' = Empty
                    /\ targetEpoch' = Empty
                    /\ UNCHANGED <<committee, tasks>>
    /\ last' = [kind |-> reconfigure.msg.type, launched |-> FALSE]
    /\ UNCHANGED envVars
    /\ UNCHANGED coreVars
    /\ UNCHANGED peerVars

\* run(): result = self.rx_reconfigure.changed(), then borrow_and_update.
HandleReconfigure ==
    /\ running
    /\ reconfigure.changed
    /\ reconfigure' = [reconfigure EXCEPT !.changed = FALSE]
    /\ LET message == reconfigure.msg
       IN  CASE message.type = "NewEpoch" ->
                    /\ committee' = message.committee
                    /\ targets' = Empty
                    /\ targetEpoch' = Empty
                    /\ UNCHANGED running
              [] message.type = "UpdateCommittee" ->
                    /\ committee' = message.committee
                    /\ UNCHANGED <<targets, targetEpoch, running>>
              [] message.type = "Shutdown" ->
                    \* run() returns and self is dropped
                    /\ running' = FALSE
                    /\ targets' = Empty
                    /\ targetEpoch' = Empty
                    /\ UNCHANGED committee
    /\ last' = [kind |-> reconfigure.msg.type, launched |-> FALSE]
    /\ UNCHANGED tasks
    /\ UNCHANGED envVars
    /\ UNCHANGED coreVars
    /\ UNCHANGED peerVars

\* ------------------------------------------------------------ the fetch task

\* committee.others_primaries(name) of fetch_certificates_helper.
others_primaries(c) == c.members \ {Name}

\* A task that has returned: its future holds nothing but the output.
Finished(res) ==
    [pc        |-> "finished",
     committee |-> NoCommittee,
     request   |-> NoRequest,
     peers     |-> <<>>,
     idx       |-> 0,
     fut       |-> {},
     response  |-> -1,
     result    |-> res]

\* Mutation of AfterResponse: an empty response is ignored and the probing
\* goes on.
AfterResponse_RetriesOnEmpty(t, n) ==
    IF n = 0
    THEN t
    ELSE IF n > MAX_CERTIFICATES_TO_FETCH
         THEN Finished("TooManyFetchedCertificatesReturned")
         ELSE [t EXCEPT !.pc = "send", !.fut = {}, !.response = n]

\* Mutation of AfterResponse: the calls still outstanding are kept when a
\* response is returned.
AfterResponse_KeepsCalls(t, n) ==
    IF n > MAX_CERTIFICATES_TO_FETCH
    THEN Finished("TooManyFetchedCertificatesReturned")
    ELSE [t EXCEPT !.pc = "send", !.response = n]

\* Mutation of AfterResponse: the size of the response is not checked.
AfterResponse_Unchecked(t, n) ==
    [t EXCEPT !.pc = "send", !.fut = {}, !.response = n]

\* process_certificates_helper up to its first await: the size check, then
\* the send on the loopback channel.
AfterResponse(t, n) ==
    IF n > MAX_CERTIFICATES_TO_FETCH
    THEN Finished("TooManyFetchedCertificatesReturned")
    ELSE [t EXCEPT !.pc = "send", !.fut = {}, !.response = n]

\* Mutation of NextPeer: issuing a call drops the calls issued before it.
NextPeer_CancelsOlder(t, fut, order) ==
    IF t.idx < Len(t.peers)
    THEN [t EXCEPT !.idx = t.idx + 1, !.fut = {t.peers[t.idx + 1]}]
    ELSE [t EXCEPT !.peers = order, !.idx = 1, !.fut = {order[1]}]

\* Mutation of NextPeer: the probing gives up after one pass over the peers.
NextPeer_GivesUp(t, fut, order) ==
    IF t.idx < Len(t.peers)
    THEN [t EXCEPT !.idx = t.idx + 1, !.fut = fut \cup {t.peers[t.idx + 1]}]
    ELSE Finished("ClosedChannel")

\* fetch_certificates_helper: the end of one iteration of `for peer in peers`
\* without a response: the next peer's call is pushed, or, after the last
\* peer, fut is dropped, the peers are shuffled again and the first call of
\* the new pass is pushed.
NextPeer(t, fut, order) ==
    IF t.idx < Len(t.peers)
    THEN [t EXCEPT !.idx = t.idx + 1, !.fut = fut \cup {t.peers[t.idx + 1]}]
    ELSE [t EXCEPT !.peers = order, !.idx = 1, !.fut = {order[1]}]

\* The order param of a step is a shuffle of the task's peers, and is the
\* order in use unless the step ends a pass.
Reshuffle(t, order) ==
    /\ order \in Shuffles(others_primaries(t.committee))
    /\ t.idx < Len(t.peers) => order = t.peers

\* The spawned task starts: run_fetch_task builds the request,
\* fetch_certificates_helper shuffles the peers and issues the first call.
TaskStart(id, order) ==
    /\ id \in DOMAIN tasks
    /\ tasks[id].pc = "spawned"
    /\ order \in Shuffles(others_primaries(tasks[id].committee))
    /\ tasks' = [tasks EXCEPT ![id] = [@ EXCEPT !.pc = "select", !.peers = order,
                                                !.idx = 1, !.fut = {order[1]}]]
    /\ last' = NoEvent
    /\ UNCHANGED <<loopVars, reconfigure>>
    /\ UNCHANGED envVars
    /\ UNCHANGED coreVars
    /\ UNCHANGED peerVars

\* select!: res = fut.next() is Some(Ok(resp)) with n certificates.
PeerResponse(id, peer, n) ==
    /\ id \in DOMAIN tasks
    /\ tasks[id].pc = "select"
    /\ peer \in tasks[id].fut
    /\ tasks' = [tasks EXCEPT ![id] = AfterResponse(@, n)]
    /\ last' = NoEvent
    /\ UNCHANGED <<loopVars, reconfigure>>
    /\ UNCHANGED envVars
    /\ UNCHANGED coreVars
    /\ UNCHANGED peerVars

\* Mutation of PeerError: the failed call is taken out of fut and the next
\* call waits for the interval.
PeerError_WaitsForInterval(id, peer, order) ==
    /\ id \in DOMAIN tasks
    /\ tasks[id].pc = "select"
    /\ peer \in tasks[id].fut
    /\ Reshuffle(tasks[id], order)
    /\ tasks' = [tasks EXCEPT ![id] = [@ EXCEPT !.fut = @ \ {peer}]]
    /\ last' = NoEvent
    /\ UNCHANGED <<loopVars, reconfigure>>
    /\ UNCHANGED envVars
    /\ UNCHANGED coreVars
    /\ UNCHANGED peerVars

\* select!: res = fut.next() is Some(Err(e)).
PeerError(id, peer, order) ==
    /\ id \in DOMAIN tasks
    /\ tasks[id].pc = "select"
    /\ peer \in tasks[id].fut
    /\ Reshuffle(tasks[id], order)
    /\ tasks' = [tasks EXCEPT ![id] = NextPeer(@, @.fut \ {peer}, order)]
    /\ last' = NoEvent
    /\ UNCHANGED <<loopVars, reconfigure>>
    /\ UNCHANGED envVars
    /\ UNCHANGED coreVars
    /\ UNCHANGED peerVars

\* select!: _ = &mut interval, request_interval has elapsed.
IntervalElapsed(id, order) ==
    /\ id \in DOMAIN tasks
    /\ tasks[id].pc = "select"
    /\ Reshuffle(tasks[id], order)
    /\ tasks' = [tasks EXCEPT ![id] = NextPeer(@, @.fut, order)]
    /\ last' = NoEvent
    /\ UNCHANGED <<loopVars, reconfigure>>
    /\ UNCHANGED envVars
    /\ UNCHANGED coreVars
    /\ UNCHANGED peerVars

\* process_certificates_helper: tx_certificates_loopback.send(..).await
\* returns, Ok when the message was queued, Err when the channel is closed.
LoopbackSend(id) ==
    /\ id \in DOMAIN tasks
    /\ tasks[id].pc = "send"
    /\ IF loopbackClosed
       THEN /\ tasks' = [tasks EXCEPT ![id] = Finished("ClosedChannel")]
            /\ UNCHANGED loopback
       ELSE /\ Len(loopback) < LoopbackCapacity
            /\ loopback' = Append(loopback,
                                  [certificates |-> tasks[id].response, done |-> id])
            /\ tasks' = [tasks EXCEPT ![id] = [@ EXCEPT !.pc = "done", !.response = -1]]
    /\ last' = NoEvent
    /\ UNCHANGED <<loopVars, reconfigure, loopbackClosed, held>>
    /\ UNCHANGED envVars
    /\ UNCHANGED peerVars

\* ------------------------------------------------------------------ the core

\* Mutation of Acknowledged: the result of rx_done.await is not looked at.
Acknowledged_IgnoresDrop(ts, m, res) ==
    [id \in DOMAIN ts |->
        IF id = m.done /\ ts[id].pc = "done" THEN Finished("Ok") ELSE ts[id]]

\* rx_done.await returns res for the task waiting on the oneshot channel of
\* message m.
Acknowledged(ts, m, res) ==
    [id \in DOMAIN ts |->
        IF id = m.done /\ ts[id].pc = "done" THEN Finished(res) ELSE ts[id]]

\* The core receives the next loopback message: the slot of the channel is
\* free again, `done` is not resolved yet.
CoreRecv ==
    /\ ~loopbackClosed
    /\ loopback # <<>>
    /\ held' = Append(held, Head(loopback))
    /\ loopback' = Tail(loopback)
    /\ last' = NoEvent
    /\ UNCHANGED <<loopVars, tasks, reconfigure, loopbackClosed>>
    /\ UNCHANGED envVars
    /\ UNCHANGED peerVars

\* The core has processed the message it received first and signals
\* `done`: rx_done.await is Ok.
CoreDone ==
    /\ held # <<>>
    /\ held' = Tail(held)
    /\ tasks' = Acknowledged(tasks, Head(held), "Ok")
    /\ last' = NoEvent
    /\ UNCHANGED <<loopVars, reconfigure, loopback, loopbackClosed>>
    /\ UNCHANGED envVars
    /\ UNCHANGED peerVars

\* The core drops the message it received first without signalling `done`:
\* rx_done.await is Err.
CoreDropDone ==
    /\ held # <<>>
    /\ held' = Tail(held)
    /\ tasks' = Acknowledged(tasks, Head(held), "ClosedChannel")
    /\ last' = NoEvent
    /\ UNCHANGED <<loopVars, reconfigure, loopback, loopbackClosed>>
    /\ UNCHANGED envVars
    /\ UNCHANGED peerVars

\* The messages of the queue q that carry the `done` sender of task id.
Queued(q, id) == {i \in 1..Len(q) : q[i].done = id}

\* The core drops the receiver of the loopback channel, and with it the
\* queued messages and their `done` senders; a message it has received
\* stays with it.
CoreClose ==
    /\ ~loopbackClosed
    /\ loopbackClosed' = TRUE
    /\ loopback' = <<>>
    /\ tasks' = [id \in DOMAIN tasks |->
                    IF tasks[id].pc = "done" /\ Queued(loopback, id) # {}
                    THEN Finished("ClosedChannel") ELSE tasks[id]]
    /\ last' = NoEvent
    /\ UNCHANGED <<loopVars, reconfigure, held>>
    /\ UNCHANGED envVars
    /\ UNCHANGED peerVars

\* ----------------------------------------------------------- the environment
\* The store and the watch channels are read by run() only: the model stops
\* following them once run() has returned.

\* The store gains a certificate of authority a at the next round.
StoreAdvance(a) ==
    /\ running
    /\ a \in StoreAuthors
    /\ committed[a] < MaxRound
    /\ committed' = [committed EXCEPT ![a] = @ + 1]
    /\ last' = NoEvent
    /\ UNCHANGED <<loopVars, tasks, reconfigure, consensusRound>>
    /\ UNCHANGED coreVars
    /\ UNCHANGED peerVars

\* Consensus publishes a new round on rx_consensus_round_updates.
ConsensusAdvance ==
    /\ running
    /\ consensusRound < MaxConsensusRound
    /\ consensusRound' = consensusRound + 1
    /\ last' = NoEvent
    /\ UNCHANGED <<loopVars, tasks, reconfigure, committed>>
    /\ UNCHANGED coreVars
    /\ UNCHANGED peerVars

\* tx_reconfigure.send: the watch channel keeps the last value only.
Published(m) ==
    /\ running
    /\ reconfigure' = [msg |-> m, changed |-> TRUE]
    /\ last' = NoEvent
    /\ UNCHANGED <<loopVars, tasks>>
    /\ UNCHANGED envVars
    /\ UNCHANGED coreVars
    /\ UNCHANGED peerVars

PublishNewEpoch ==
    /\ reconfigure.msg.committee.epoch < MaxEpoch
    /\ Published([type |-> "NewEpoch",
                  committee |-> [epoch |-> reconfigure.msg.committee.epoch + 1,
                                 members |-> Members(reconfigure.msg.committee.epoch + 1)]])

PublishUpdateCommittee ==
    Published([type |-> "UpdateCommittee", committee |-> reconfigure.msg.committee])

PublishShutdown ==
    Published([type |-> "Shutdown", committee |-> reconfigure.msg.committee])

\* ------------------------------------------------------------ specification

InitialCommittee == [epoch |-> 0, members |-> Members(0)]

WaiterInit ==
    /\ committee = InitialCommittee
    /\ targets = Empty
    /\ targetEpoch = Empty
    /\ tasks = Empty
    /\ running = TRUE
    /\ committed = [a \in Authorities |-> 0]
    /\ consensusRound = 0
    /\ reconfigure = [msg |-> [type |-> "NewEpoch", committee |-> InitialCommittee],
                      changed |-> FALSE]
    /\ loopback = <<>>
    /\ loopbackClosed = FALSE
    /\ held = <<>>
    /\ last = NoEvent

\* No request has reached the peer-side handler.
NoResponse == [answered |-> FALSE, certificates |-> {}]

Init ==
    /\ WaiterInit
    /\ certificate_store = Empty
    /\ req = NoRequest
    /\ resp = NoResponse

\* The orders peers.shuffle can produce, for the committees of all epochs.
Orders == UNION {Shuffles(Members(e) \ {Name}) : e \in Epochs}

Next ==
    \/ \E c \in Certificates, readOk, kickOk \in BOOLEAN : HandleCertificate(c, readOk, kickOk)
    \/ \E id \in DOMAIN tasks, kickOk \in BOOLEAN : HandleTaskEnd(id, kickOk)
    \/ HandleReconfigure
    \/ \E id \in DOMAIN tasks, order \in Orders : TaskStart(id, order)
    \/ \E id \in DOMAIN tasks, peer \in Authorities, n \in ResponseSizes : PeerResponse(id, peer, n)
    \/ \E id \in DOMAIN tasks, peer \in Authorities, order \in Orders : PeerError(id, peer, order)
    \/ \E id \in DOMAIN tasks, order \in Orders : IntervalElapsed(id, order)
    \/ \E id \in DOMAIN tasks : LoopbackSend(id)
    \/ CoreRecv
    \/ CoreDone
    \/ CoreDropDone
    \/ CoreClose
    \/ \E a \in Authorities : StoreAdvance(a)
    \/ ConsensusAdvance
    \/ PublishNewEpoch
    \/ PublishUpdateCommittee
    \/ PublishShutdown

Spec == Init /\ [][Next]_vars

\* A peer of every committee that holds the needed certificates and answers
\* each call it receives.
AnsweringPeer == 2

\* The fetch task is probing: spawned or inside fetch_certificates_helper.
Probing == \E id \in DOMAIN tasks : tasks[id].pc \in {"spawned", "select"}

\* The runtime runs a spawned task and fires its timers (weak fairness);
\* AnsweringPeer answers within bounded time, that is before its call is
\* dropped at the end of a pass, however often the call is issued again
\* (strong fairness).
Fairness ==
    /\ WF_vars(\E id \in DOMAIN tasks, order \in Orders : TaskStart(id, order))
    /\ WF_vars(\E id \in DOMAIN tasks, order \in Orders : IntervalElapsed(id, order))
    /\ SF_vars(\E id \in DOMAIN tasks : PeerResponse(id, AnsweringPeer, MAX_CERTIFICATES_TO_FETCH))

FairSpec == Spec /\ Fairness

\* ------------------------------------------------ a store that never fails
\* The waiter over a store whose reads all succeed: last_committed_round and
\* all_committed_rounds return Ok in every step.
ReadsOkNext ==
    \/ \E c \in Certificates : HandleCertificate(c, TRUE, TRUE)
    \/ \E id \in DOMAIN tasks : HandleTaskEnd(id, TRUE)
    \/ HandleReconfigure
    \/ \E id \in DOMAIN tasks, order \in Orders : TaskStart(id, order)
    \/ \E id \in DOMAIN tasks, peer \in Authorities, n \in ResponseSizes : PeerResponse(id, peer, n)
    \/ \E id \in DOMAIN tasks, peer \in Authorities, order \in Orders : PeerError(id, peer, order)
    \/ \E id \in DOMAIN tasks, order \in Orders : IntervalElapsed(id, order)
    \/ \E id \in DOMAIN tasks : LoopbackSend(id)
    \/ CoreRecv
    \/ CoreDone
    \/ CoreDropDone
    \/ CoreClose
    \/ \E a \in Authorities : StoreAdvance(a)
    \/ ConsensusAdvance
    \/ PublishNewEpoch
    \/ PublishUpdateCommittee
    \/ PublishShutdown

ReadsOkSpec == Init /\ [][ReadsOkNext]_vars

\* ------------------------------------------- a fetch task among four primaries
\* The fetch task of a primary of a committee of four: three peers to probe,
\* the committee size of the tests of the primary (committee_size(4)). The
\* waiter has just launched the task for a target of authority 2; no other
\* certificate and no reconfiguration arrives.

ProbeAuthorities == {1, 2, 3, 4}

ProbeCommittee == [epoch |-> 0, members |-> ProbeAuthorities]

\* The orders peers.shuffle can produce for the three peers.
ProbeOrders == Shuffles(others_primaries(ProbeCommittee))

ProbeInit ==
    /\ committee = ProbeCommittee
    /\ targets = Insert(Empty, 2, 1)
    /\ targetEpoch = Insert(Empty, 2, 0)
    /\ running = TRUE
    /\ committed = [a \in ProbeAuthorities |-> 0]
    /\ consensusRound = 0
    /\ reconfigure = [msg |-> [type |-> "NewEpoch", committee |-> ProbeCommittee],
                      changed |-> FALSE]
    /\ loopback = <<>>
    /\ loopbackClosed = FALSE
    /\ held = <<>>
    /\ tasks = Insert(Empty, 1, NewTask)
    /\ last = [kind |-> "inserted", launched |-> TRUE]
    /\ certificate_store = Empty
    /\ req = NoRequest
    /\ resp = NoResponse

ProbeNext ==
    \/ \E id \in DOMAIN tasks, order \in ProbeOrders : TaskStart(id, order)
    \/ \E id \in DOMAIN tasks, peer \in ProbeAuthorities, n \in ResponseSizes :
            PeerResponse(id, peer, n)
    \/ \E id \in DOMAIN tasks, peer \in ProbeAuthorities, order \in ProbeOrders :
            PeerError(id, peer, order)
    \/ \E id \in DOMAIN tasks, order \in ProbeOrders : IntervalElapsed(id, order)
    \/ \E id \in DOMAIN tasks : LoopbackSend(id)
    \/ CoreRecv
    \/ CoreDone
    \/ CoreDropDone
    \/ CoreClose
    \/ \E id \in DOMAIN tasks, kickOk \in BOOLEAN : HandleTaskEnd(id, kickOk)

ProbeSpec == ProbeInit /\ [][ProbeNext]_vars

\* ------------------------------------------------- the peer-side handler
\* PrimaryReceiverHandler::fetch_certificates answers the calls of
\* fetch_certificates_helper on the peer. It is modelled on its own, from the
\* description of the fetch request and on the store and request of
\* test_fetch_certificates_handler.

Min(a, b) == IF a <= b THEN a ELSE b

\* The authorities of the handler's committee: A0..A3.
HandlerAuthorities == 0..3

\* A store holds, for each authority, the certificates of rounds 0..store[a].
Stores == [HandlerAuthorities -> 1..MaxStoredRound]

\* The certificates of a store.
Stored(store) ==
    {c \in [author : DOMAIN store, round : 0..MaxStoredRound] : c.round <= store[c.author]}

\* The bounds a request lists for an authority.
BoundValues == {1, MaxStoredRound - 1}

\* The values of max_items.
MaxItemsValues == {1, MaxStoredRound + 1}

\* The requests: any of the authorities of the committee are listed, each
\* with a bound.
Requests ==
    UNION {[exclusive_lower_bounds : [listed -> BoundValues],
            max_items : MaxItemsValues] : listed \in SUBSET HandlerAuthorities}

\* The bound of authority a in a request: the bound listed for it, and 0
\* for an authority that is not listed.
Bound(bounds, a) == IF a \in DOMAIN bounds THEN bounds[a] ELSE 0

\* Mutation of Qualifies: the bound is inclusive.
Qualifies_Inclusive(c, bounds) == c.round >= Bound(bounds, c.author)

\* The round of the certificate is above the bound of its author.
Qualifies(c, bounds) == c.round > Bound(bounds, c.author)

\* The responses the handler can give: the qualifying certificates, all of
\* them or, when they are more than max_items, any max_items of them.
Responses(store, rq) ==
    LET Q == {c \in Stored(store) : Qualifies(c, rq.exclusive_lower_bounds)}
    IN  IF Cardinality(Q) <= rq.max_items
        THEN {Q}
        ELSE {S \in SUBSET Q : Cardinality(S) = rq.max_items}

\* handler.fetch_certificates(req)
fetch_certificates ==
    /\ ~resp.answered
    /\ \E certificates \in Responses(certificate_store, req) :
         resp' = [answered |-> TRUE, certificates |-> certificates]
    /\ UNCHANGED <<certificate_store, req>>
    /\ UNCHANGED waiterVars

HandlerInit ==
    /\ WaiterInit
    /\ certificate_store \in Stores
    /\ req \in Requests
    /\ resp = NoResponse

HandlerNext == fetch_certificates

HandlerSpec == HandlerInit /\ [][HandlerNext]_vars

\* ------------------------------------------------------------------- claims

\* A fetch task is in flight from its spawn until it has returned.
InFlight(t) == t.pc # "finished"

\* C1: at most one fetch task is in flight in every reachable state: the
\* task collection never holds more than the sentinel and one task, and a
\* step in which kick() spawned a task ends with that task alone in it.
C1_AtMostOneFetchTask ==
    /\ TaskLen(tasks) <= 2
    /\ last.launched =>
         \E id \in DOMAIN tasks : DOMAIN tasks = {id} /\ tasks[id].pc = "spawned"

\* A certificate was inserted while a fetch task was in flight, and no
\* second task was spawned.
C1_Witness ==
    /\ last.kind = "inserted"
    /\ ~last.launched
    /\ \E id \in DOMAIN tasks : InFlight(tasks[id])

\* committed_snapshot[a] of the spec for the request bounds b of the task
\* just launched.
CommittedSnapshot(b, a) == IF a \in DOMAIN b THEN b[a] ELSE gc_round

\* C2: right after kick() launched a fetch task, targets is not empty and
\* every target is strictly above the committed snapshot of its authority:
\* the stored round floored at gc_round for an authority of the committee,
\* gc_round for any other.
C2_LaunchAboveSnapshot ==
    last.launched =>
        /\ targets # Empty
        /\ \E id \in DOMAIN tasks :
             LET b == tasks[id].request.exclusive_lower_bounds
             IN  /\ tasks[id].pc = "spawned"
                 /\ DOMAIN b = committee.members
                 /\ \A a \in DOMAIN b : b[a] = Max(committed[a], gc_round)
                 /\ \A a \in DOMAIN targets : targets[a] > CommittedSnapshot(b, a)

\* A task was launched for a target whose authority has a stored round
\* below a positive gc_round: the floor of the snapshot decided.
C2_Witness ==
    /\ last.launched
    /\ gc_round > 0
    /\ \E a \in DOMAIN targets : committed[a] < gc_round

\* C3 (as claimed): after every step every target was installed by a
\* certificate of the epoch of the committee held, and a step that changes
\* the epoch of the committee leaves targets empty.
C3_NoTargetSurvivesEpoch ==
    [][/\ \A a \in DOMAIN targets' : targetEpoch'[a] = committee'.epoch
       /\ committee'.epoch # committee.epoch => targets' = Empty]_vars

\* The events of the missing-parent arm of run(), as recorded in `last`.
CertificateKinds == {"inserted", "stale_epoch", "dropped"}

\* C4: handling a certificate of another epoch than the committee's changes
\* neither targets nor the tasks.
C4_StaleEpochIgnored ==
    [][last'.kind \in CertificateKinds =>
         \A c \in Certificates :
            (/\ c.epoch # committee.epoch
             /\ \E readOk, kickOk \in BOOLEAN : HandleCertificate(c, readOk, kickOk))
            => targets' = targets /\ tasks' = tasks]_vars

\* A certificate of another epoch was handled while targets were pending.
C4_Witness ==
    /\ last.kind = "stale_epoch"
    /\ targets # Empty
    /\ committee.epoch > 0

\* A step of run() in which kick() can have run.
KickStep == last'.kind \in {"inserted", "task_end"}

\* C5: handling certificate (a, r) sets target[a] = r exactly when r is
\* above the existing target, the store read succeeds and the stored round
\* is below r (the kick() of that step may then drop targets); otherwise
\* targets and tasks are unchanged. No step lowers a target, and a target
\* is removed only by a reconfiguration or by a step that can kick.
C5_MonotonicTargets ==
    [][/\ last'.kind \in CertificateKinds =>
            \A c \in Certificates : \A readOk, kickOk \in BOOLEAN :
                HandleCertificate(c, readOk, kickOk) =>
                    IF /\ c.epoch = committee.epoch
                       /\ c.author \in DOMAIN targets => c.round > targets[c.author]
                       /\ readOk
                       /\ committed[c.author] < c.round
                    THEN /\ DOMAIN targets' \subseteq DOMAIN targets \cup {c.author}
                         /\ \A b \in DOMAIN targets' :
                              targets'[b] = IF b = c.author THEN c.round ELSE targets[b]
                         /\ c.author \in DOMAIN targets' \/ tasks = Empty
                    ELSE targets' = targets /\ tasks' = tasks
       /\ \A a \in DOMAIN targets :
            IF a \in DOMAIN targets'
            THEN targets'[a] >= targets[a]
            ELSE KickStep \/ last'.kind \in {"NewEpoch", "Shutdown"}]_vars

\* A target above round 1 was set while a fetch task was in flight.
C5_Witness ==
    /\ last.kind = "inserted"
    /\ \E a \in DOMAIN targets : targets[a] > 1
    /\ \E id \in DOMAIN tasks : InFlight(tasks[id])

\* C6: no loopback message carries more than MAX_CERTIFICATES_TO_FETCH
\* certificates; a response with more ends the task with
\* TooManyFetchedCertificatesReturned, nothing is sent and run() goes on.
C6_OversizedResponseRejected ==
    [][/\ \A i \in 1..Len(loopback') :
            loopback'[i].certificates <= MAX_CERTIFICATES_TO_FETCH
       /\ \A id \in DOMAIN tasks, peer \in Authorities, n \in ResponseSizes :
            (n > MAX_CERTIFICATES_TO_FETCH /\ PeerResponse(id, peer, n)) =>
                /\ tasks'[id].pc = "finished"
                /\ tasks'[id].result = "TooManyFetchedCertificatesReturned"
                /\ loopback' = loopback
                /\ UNCHANGED <<running, committee, targets>>]_vars

\* A task ended on an oversized response while run() is running.
C6_Witness ==
    /\ running
    /\ \E id \in DOMAIN tasks : tasks[id].result = "TooManyFetchedCertificatesReturned"
    /\ loopback = <<>>

\* C7 (as claimed): from every reachable state in which run() is running,
\* delivering a certificate twice in a row leaves targets, after the second
\* delivery, as they are after the first, and at most one of the two
\* deliveries launches a fetch task.
C7_DedupIdempotence ==
    running =>
        \A c \in Certificates : \A r1, k1, r2, k2 \in BOOLEAN :
            LET s1 == MissingParent(targets, targetEpoch, tasks, c, r1, k1)
                s2 == MissingParent(s1.targets, s1.targetEpoch, s1.tasks, c, r2, k2)
            IN  /\ s2.targets = s1.targets
                /\ ~(s1.launched /\ s2.launched)

\* No store read failure has left a target pending without a fetch task.
NotStalled == targets # Empty => tasks # Empty

\* The first delivery of c is dropped because its store read fails: run()
\* reaches last_committed_round and gets Err.
ReadFails(tg, c, readOk) ==
    /\ ~StaleEpoch(c)
    /\ ~(c.author \in DOMAIN tg /\ c.round <= tg[c.author])
    /\ ~readOk

\* C7 (amended): delivering a certificate twice in a row launches at most
\* one fetch task, whatever the store reads return. When the store read of
\* the first delivery fails, that delivery changes nothing and launches
\* nothing, and the second delivery is handled as a first one. Otherwise
\* targets after the second delivery are what they are after the first,
\* with one exception: the kick() of the first delivery has dropped the
\* target of the certificate as covered by gc_round, and the second
\* delivery inserts it again and it stays, no task being launched, because
\* the store read of the second kick() fails, or because no kick() runs
\* then: the first kick() launched a task for other targets, which an
\* earlier failed read of kick() had left pending without a task.
C7_DedupIdempotenceByCase ==
    running =>
        \A c \in Certificates : \A r1, k1, r2, k2 \in BOOLEAN :
            LET s1 == MissingParent(targets, targetEpoch, tasks, c, r1, k1)
                s2 == MissingParent(s1.targets, s1.targetEpoch, s1.tasks, c, r2, k2)
            IN  /\ ~(s1.launched /\ s2.launched)
                /\ IF ReadFails(targets, c, r1)
                   THEN /\ s1.targets = targets
                        /\ s1.tasks = tasks
                        /\ ~s1.launched
                        /\ s1.kind = "dropped"
                   ELSE \/ s2.targets = s1.targets
                        \/ /\ c.author \notin DOMAIN s1.targets
                           /\ c.round <= gc_round
                           /\ s2.targets = Insert(s1.targets, c.author, c.round)
                           /\ ~s2.launched
                           /\ \/ ~k2
                              \/ s1.launched /\ ~NotStalled

\* A certificate of author 3 was dropped right after the launch of a task
\* for the only target, of author 3, while the store holds nothing: the
\* second delivery of the certificate that launched the task.
C7_Witness ==
    /\ last.kind = "dropped"
    /\ DOMAIN targets = {3}
    /\ \A a \in Authorities : committed[a] = 0
    /\ \E id \in DOMAIN tasks : tasks[id].pc = "spawned"

\* The task awaits tx_certificates_loopback.send or rx_done.
Blocked(t) == t.pc \in {"send", "done"}

\* C8: while a fetch task is blocked on the loopback send or on `done`, it
\* is the only task, no task has just been launched, run() can handle any
\* certificate and any pending reconfiguration, and handling a certificate
\* updates targets as ever and launches nothing.
C8_Backpressure ==
    \A id \in DOMAIN tasks :
        Blocked(tasks[id]) =>
            /\ DOMAIN tasks = {id}
            /\ ~last.launched
            /\ running =>
                 /\ \A c \in Certificates : ENABLED HandleCertificate(c, TRUE, TRUE)
                 /\ reconfigure.changed => ENABLED HandleReconfigure
            /\ \A c \in Certificates : \A readOk, kickOk \in BOOLEAN :
                 LET s == MissingParent(targets, targetEpoch, tasks, c, readOk, kickOk)
                 IN  /\ s.tasks = tasks
                     /\ ~s.launched
                     /\ s.targets = IF Accepts(targets, c, readOk)
                                    THEN Insert(targets, c.author, c.round)
                                    ELSE targets

\* A certificate was inserted while the task awaits `done` and its message
\* is still queued.
C8_Witness ==
    /\ last.kind = "inserted"
    /\ loopback # <<>>
    /\ \E id \in DOMAIN tasks : tasks[id].pc = "done"

\* C9 (as claimed): once run() has returned on Shutdown, no fetch task
\* starts, issues a peer call, sends a loopback message or begins to await
\* `done`.
C9_ShutdownCancelsTask ==
    [][~running =>
         \A id \in DOMAIN tasks :
            /\ ~(\E order \in Orders : TaskStart(id, order))
            /\ ~(\E peer \in Authorities, order \in Orders : PeerError(id, peer, order))
            /\ ~(\E order \in Orders : IntervalElapsed(id, order))
            /\ ~(LoopbackSend(id) /\ tasks'[id].pc = "done")]_vars

\* C10: a NewEpoch or UpdateCommittee handled by run() leaves the tasks as
\* they are; a task in flight stays in the collection, alone, keeps the
\* committee and the request it was spawned with while in flight, calls only
\* the other primaries of that committee, and can send its loopback message.
C10_ReconfigureKeepsTask ==
    [][/\ last'.kind \in {"NewEpoch", "UpdateCommittee"} => tasks' = tasks
       /\ \A id \in DOMAIN tasks :
            InFlight(tasks[id]) =>
                /\ DOMAIN tasks' = {id}
                /\ InFlight(tasks'[id]) =>
                     /\ tasks'[id].committee = tasks[id].committee
                     /\ tasks'[id].request = tasks[id].request
                /\ tasks'[id].fut \subseteq others_primaries(tasks[id].committee)
                /\ tasks[id].pc = "send" => ENABLED LoopbackSend(id)]_vars

\* A NewEpoch was handled while a task spawned under the previous committee
\* has calls outstanding.
C10_Witness ==
    /\ last.kind = "NewEpoch"
    /\ \E id \in DOMAIN tasks :
         /\ tasks[id].fut # {}
         /\ tasks[id].committee # committee

\* C11: the task launched by a step carries the request built from what
\* kick() read in that step: for each authority of the committee held, the
\* stored round floored at gc_round, and max_items = 1000; no later step
\* changes the request of a task in flight.
C11_RequestFixedAtLaunch ==
    [][/\ last'.launched =>
            \E id \in DOMAIN tasks' :
                /\ tasks'[id].pc = "spawned"
                /\ tasks'[id].request =
                     [exclusive_lower_bounds |->
                          [a \in committee.members |->
                              Max(committed[a], Max(0, consensusRound - gc_depth))],
                      max_items |-> 1000]
       /\ \A id \in DOMAIN tasks :
            (InFlight(tasks[id]) /\ id \in DOMAIN tasks' /\ InFlight(tasks'[id])) =>
                tasks'[id].request = tasks[id].request]_vars

\* A certificate was inserted while the task in flight holds a bound below
\* what a kick() would read now: the store or consensus moved on after the
\* launch and the request did not follow.
C11_Witness ==
    /\ last.kind = "inserted"
    /\ \E id \in DOMAIN tasks :
         /\ InFlight(tasks[id])
         /\ \E a \in DOMAIN tasks[id].request.exclusive_lower_bounds :
              tasks[id].request.exclusive_lower_bounds[a] < Max(committed[a], gc_round)

\* C12 (as claimed): the kick() run at the end of a task, when its store
\* reads succeed, keeps exactly the targets above gc_round and above the
\* stored round of their authority, unchanged.
C12_KickKeepsOnlyUncovered ==
    [][\A id \in DOMAIN tasks :
         HandleTaskEnd(id, TRUE) =>
            \A a \in DOMAIN targets :
                /\ a \in DOMAIN targets' <=>
                     (targets[a] > gc_round /\ targets[a] > last_committed_round(a))
                /\ a \in DOMAIN targets' => targets'[a] = targets[a]]_vars

\* C13 (as claimed): under FairSpec the probing of a fetch task eventually
\* ends, and every response handed downstream is non-empty.
C13_CatchUpLiveness ==
    /\ Probing ~> ~Probing
    /\ [](\A i \in 1..Len(loopback) : loopback[i].certificates > 0)

\* C13 (amended): under FairSpec the probing of a fetch task eventually
\* ends, with the first successful response of any peer: a step in which a
\* peer answers ends the probing, whatever the size of the response.
C13_ProbingTerminates ==
    /\ Probing ~> ~Probing
    /\ [][\A id \in DOMAIN tasks, peer \in Authorities, n \in ResponseSizes :
            PeerResponse(id, peer, n) =>
                /\ tasks'[id].pc \in {"send", "finished"}
                /\ tasks'[id].pc = "send" => tasks'[id].response = n]_vars

\* A task holds an empty response, about to be handed downstream.
C13_Witness ==
    \E id \in DOMAIN tasks : tasks[id].pc = "send" /\ tasks[id].response = 0

\* The target of a is above the committed snapshot a kick() would build now.
AboveSnapshot(tg, a) ==
    tg[a] > (IF a \in committee.members
             THEN Max(last_committed_round(a), gc_round)
             ELSE gc_round)

\* C14 (as claimed): when run() takes out a task that ended with Ok, its
\* message sent and acknowledged, while one target is pending, targets
\* become empty and no task is launched.
C14_SimpleCatchUp ==
    [][\A id \in DOMAIN tasks :
         (/\ \E kickOk \in BOOLEAN : HandleTaskEnd(id, kickOk)
          /\ tasks[id].result = "Ok"
          /\ Cardinality(DOMAIN targets) = 1) =>
             targets' = Empty /\ tasks' = Empty]_vars

\* C14 (amended): a task sends one loopback message, carrying the response
\* it received, and none after it. Once the task has ended with Ok, run()
\* can take it out and runs kick(); with one target pending, when the store
\* read succeeds, targets become empty and nothing is launched if the
\* target is not above its committed snapshot (the store or gc_round has
\* reached it), and otherwise the target is kept and a new task is launched
\* for it; when the store read fails, the target is kept and nothing is
\* launched.
C14_SimpleCatchUpWhenCovered ==
    [][\A id \in DOMAIN tasks :
         /\ (LoopbackSend(id) /\ ~loopbackClosed) =>
                /\ loopback' = Append(loopback, [certificates |-> tasks[id].response,
                                                 done |-> id])
                /\ tasks'[id].pc = "done"
         /\ tasks[id].pc = "done" =>
                /\ id \in DOMAIN tasks'
                /\ tasks'[id].pc \in {"done", "finished"}
                /\ Len(loopback') <= Len(loopback)
         /\ \A a \in Authorities :
                (/\ running
                 /\ tasks[id].pc = "finished"
                 /\ tasks[id].result = "Ok"
                 /\ DOMAIN targets = {a}) =>
                    /\ ENABLED HandleTaskEnd(id, TRUE)
                    /\ HandleTaskEnd(id, TRUE) =>
                         IF AboveSnapshot(targets, a)
                         THEN /\ targets' = targets
                              /\ last'.launched
                              /\ \E new \in DOMAIN tasks' :
                                   /\ DOMAIN tasks' = {new}
                                   /\ tasks'[new].pc = "spawned"
                         ELSE /\ targets' = Empty
                              /\ tasks' = Empty
                              /\ ~last'.launched
                    /\ HandleTaskEnd(id, FALSE) =>
                         /\ targets' = targets
                         /\ tasks' = Empty
                         /\ ~last'.launched]_vars

\* A task has ended with Ok, its message sent and acknowledged, while the
\* only target is of an authority of the committee whose stored round has
\* reached it; run() has not taken the task out yet.
C14_Witness ==
    /\ running
    /\ ~loopbackClosed
    /\ \E id \in DOMAIN tasks : tasks[id].result = "Ok"
    /\ \E a \in committee.members :
         /\ DOMAIN targets = {a}
         /\ committed[a] >= targets[a]
         /\ committed[a] > gc_round

\* The store and the request of test_fetch_certificates_handler.
TestStore == [a \in HandlerAuthorities |-> a + 1]

TestRequest ==
    [exclusive_lower_bounds |-> (0 :> 1) @@ (1 :> 1) @@ (2 :> 3) @@ (3 :> 3),
     max_items |-> 5]

\* C15 (as claimed): the response of the handler holds only stored
\* certificates of a listed authority with a round above its bound, all of
\* them when they are at most max_items and max_items of them otherwise; for
\* the store and the request of the test it is the certificates of A1 at
\* round 2 and of A3 at round 4.
C15_FetchQuery ==
    resp.answered =>
        LET bounds == req.exclusive_lower_bounds
            matching == {c \in [author : HandlerAuthorities, round : 0..MaxStoredRound] :
                            /\ c.round <= certificate_store[c.author]
                            /\ c.author \in DOMAIN bounds
                            /\ c.round > bounds[c.author]}
        IN  /\ resp.certificates \subseteq matching
            /\ Cardinality(resp.certificates) <= req.max_items
            /\ Cardinality(resp.certificates) < req.max_items =>
                 resp.certificates = matching
            /\ (certificate_store = TestStore /\ req = TestRequest) =>
                 resp.certificates = {[author |-> 1, round |-> 2],
                                      [author |-> 3, round |-> 4]}

\* C15 (amended): the response of the handler holds only stored
\* certificates with a round above the bound of their author, which is the
\* bound listed for the author and 0 for an author that is not listed, all
\* of them when they are at most max_items and max_items of them otherwise;
\* for the store and the request of the test it is the certificates of A1
\* at round 2 and of A3 at round 4.
C15_FetchQueryUnlistedFromZero ==
    resp.answered =>
        LET bounds == req.exclusive_lower_bounds
            matching == {c \in [author : HandlerAuthorities, round : 0..MaxStoredRound] :
                            /\ c.round <= certificate_store[c.author]
                            /\ \/ c.author \in DOMAIN bounds /\ c.round > bounds[c.author]
                               \/ c.author \notin DOMAIN bounds /\ c.round > 0}
        IN  /\ resp.certificates \subseteq matching
            /\ Cardinality(resp.certificates) <= req.max_items
            /\ Cardinality(resp.certificates) < req.max_items =>
                 resp.certificates = matching
            /\ (certificate_store = TestStore /\ req = TestRequest) =>
                 resp.certificates = {[author |-> 1, round |-> 2],
                                      [author |-> 3, round |-> 4]}

\* The handler has answered the request of the test on the store of the test.
C15_Witness ==
    /\ resp.answered
    /\ certificate_store = TestStore
    /\ req = TestRequest
    /\ Cardinality(resp.certificates) = 2

\* C16: at most one loopback message is not acknowledged, queued in the
\* channel or received by the core; it is the message of the only task of
\* the collection, which awaits `done`, so that no task launched later can
\* have sent before it is acknowledged; a task that awaits `done` has
\* exactly one message not acknowledged and a task that has not sent has
\* none.
C16_SingleLoopbackDelivery ==
    /\ Len(loopback) + Len(held) <= 1
    /\ \A i \in 1..Len(loopback) :
         /\ DOMAIN tasks = {loopback[i].done}
         /\ tasks[loopback[i].done].pc = "done"
    /\ \A i \in 1..Len(held) :
         /\ DOMAIN tasks = {held[i].done}
         /\ tasks[held[i].done].pc = "done"
    /\ \A id \in DOMAIN tasks :
         Cardinality(Queued(loopback, id)) + Cardinality(Queued(held, id)) =
             IF tasks[id].pc = "done" THEN 1 ELSE 0

\* Two targets are pending, the last of them just inserted, while the
\* message of the task in flight is queued.
C16_Witness ==
    /\ Len(loopback) = 1
    /\ last.kind = "inserted"
    /\ Cardinality(DOMAIN targets) = 2

\* C17 (as claimed): every entry of targets is of an authority of the
\* committee held.
C17_TargetsWithinCommittee ==
    \A a \in DOMAIN targets : a \in committee.members

\* C18: when the store read of kick() fails, the step leaves targets as
\* they were before kick() (after the insertion, in the missing-parent
\* arm), launches no task, and run() is still running.
C18_KickAbortsOnReadFailure ==
    [][/\ \A id \in DOMAIN tasks :
            HandleTaskEnd(id, FALSE) =>
                /\ targets' = targets
                /\ tasks' = Restrict(tasks, DOMAIN tasks \ {id})
                /\ ~last'.launched
                /\ running'
       /\ last'.kind = "inserted" =>
            \A c \in Certificates :
                HandleCertificate(c, TRUE, FALSE) =>
                    /\ targets' = Insert(targets, c.author, c.round)
                    /\ tasks' = tasks
                    /\ ~last'.launched
                    /\ running']_vars

\* The end of a task was handled and no task was launched although a
\* target is above the stored round and gc_round: kick() aborted.
C18_Witness ==
    /\ running
    /\ last.kind = "task_end"
    /\ tasks = Empty
    /\ \E a \in DOMAIN targets :
         a \in committee.members /\ targets[a] > Max(committed[a], gc_round)

\* C19 (as claimed): the step that takes a finished task out launches a
\* task exactly when some target is above its committed snapshot, and run()
\* is still running.
C19_TaskEndRekicks ==
    [][\A id \in DOMAIN tasks :
         (\E kickOk \in BOOLEAN : HandleTaskEnd(id, kickOk)) =>
            /\ last'.launched <=> \E a \in DOMAIN targets : AboveSnapshot(targets, a)
            /\ running']_vars

\* C19 (amended): while run() is running it can take out a finished task,
\* whatever its result; the step runs kick() and run() is still running;
\* when the store read of that kick() succeeds, a task is launched exactly
\* when some target is above its committed snapshot, for the targets above
\* it; when the read fails, nothing is launched and targets are kept.
C19_TaskEndRekicksUnlessReadFails ==
    [][\A id \in DOMAIN tasks :
         /\ (tasks[id].pc = "finished" /\ running) => ENABLED HandleTaskEnd(id, TRUE)
         /\ HandleTaskEnd(id, TRUE) =>
                /\ last'.launched <=> \E a \in DOMAIN targets : AboveSnapshot(targets, a)
                /\ DOMAIN targets' = {a \in DOMAIN targets : AboveSnapshot(targets, a)}
                /\ running'
         /\ HandleTaskEnd(id, FALSE) =>
                /\ ~last'.launched
                /\ targets' = targets
                /\ running']_vars

\* A task was launched at the end of another after the loopback channel
\* was closed.
C19_Witness ==
    /\ last.kind = "task_end"
    /\ last.launched
    /\ loopbackClosed

\* C20: a task that is probing stops probing only in a step in which a
\* peer answers; a peer error and an elapsed interval leave it probing with
\* a call outstanding, and after the last peer of a pass they start a new
\* pass over a shuffle of the same peers.
C20_ProbingEndsOnlyOnResponse ==
    [][\A id \in DOMAIN tasks :
         tasks[id].pc = "select" =>
            /\ id \in DOMAIN tasks'
            /\ tasks'[id].pc # "select" =>
                 \E peer \in tasks[id].fut, n \in ResponseSizes :
                    /\ PeerResponse(id, peer, n)
                    /\ n <= MAX_CERTIFICATES_TO_FETCH => tasks'[id].response = n
            /\ (\E peer \in Authorities, order \in Orders :
                    PeerError(id, peer, order) \/ IntervalElapsed(id, order)) =>
                 /\ tasks'[id].pc = "select"
                 /\ tasks'[id].fut # {}
                 /\ tasks[id].idx = Len(tasks[id].peers) =>
                      /\ tasks'[id].idx = 1
                      /\ tasks'[id].peers \in Shuffles(others_primaries(tasks[id].committee))
                      /\ tasks'[id].fut = {tasks'[id].peers[1]}]_vars

\* The call to the first peer of a pass has failed and the call to the
\* second peer is the only one outstanding.
C20_Witness ==
    \E id \in DOMAIN tasks :
        /\ tasks[id].pc = "select"
        /\ tasks[id].idx = 2
        /\ tasks[id].fut = {tasks[id].peers[2]}

\* C21 (as claimed): a step in which the interval elapses keeps every call
\* outstanding and adds the call to one more peer.
C21_IntervalNeverCancels ==
    [][\A id \in DOMAIN tasks, order \in ProbeOrders :
         IntervalElapsed(id, order) =>
            /\ tasks[id].fut \subseteq tasks'[id].fut
            /\ Cardinality(tasks'[id].fut) = Cardinality(tasks[id].fut) + 1]_vars

\* C21 (amended): while a peer of the pass is left, a step in which the
\* interval elapses keeps every call outstanding and adds the call to the
\* next peer of the pass; every outstanding call, however old, can answer,
\* and its answer is then the response of the task. When the interval
\* elapses after the call to the last peer of the pass, the outstanding
\* calls are dropped and the first call of a new pass is the only one.
C21_IntervalKeepsCallsWithinPass ==
    [][\A id \in DOMAIN tasks :
         tasks[id].pc = "select" =>
            /\ \A peer \in tasks[id].fut :
                 /\ ENABLED PeerResponse(id, peer, MAX_CERTIFICATES_TO_FETCH)
                 /\ PeerResponse(id, peer, MAX_CERTIFICATES_TO_FETCH) =>
                      /\ tasks'[id].pc = "send"
                      /\ tasks'[id].response = MAX_CERTIFICATES_TO_FETCH
            /\ \A order \in ProbeOrders :
                 IntervalElapsed(id, order) =>
                    IF tasks[id].idx < Len(tasks[id].peers)
                    THEN /\ tasks[id].peers[tasks[id].idx + 1] \notin tasks[id].fut
                         /\ tasks'[id].fut =
                              tasks[id].fut \cup {tasks[id].peers[tasks[id].idx + 1]}
                         /\ tasks'[id].pc = "select"
                    ELSE /\ tasks'[id].fut = {tasks'[id].peers[1]}
                         /\ tasks'[id].idx = 1
                         /\ tasks'[id].pc = "select"]_vars

\* The interval has elapsed twice in a pass: the calls to all three peers
\* are outstanding, the oldest of them still able to answer.
C21_Witness ==
    \E id \in DOMAIN tasks :
        /\ tasks[id].pc = "select"
        /\ tasks[id].idx = 3
        /\ tasks[id].fut = {tasks[id].peers[1], tasks[id].peers[2], tasks[id].peers[3]}

\* C22: a task that is probing issues a call exactly in the steps in which
\* an outstanding call fails or the interval elapses, and in the same step:
\* within a pass a failed call is replaced at once by the call to the next
\* peer, an elapsed interval adds it. So, once the first call has failed and
\* while the second stays outstanding, the third call is issued only by the
\* step in which the interval elapses; and the answer of the third peer is
\* the response of the task.
C22_NewCallOnErrorOrInterval ==
    [][\A id \in DOMAIN tasks :
         tasks[id].pc = "select" =>
            LET t == tasks[id]
                Issued == /\ tasks'[id].pc = "select"
                          /\ tasks'[id].idx # t.idx
                Failed(peer) == \E order \in ProbeOrders : PeerError(id, peer, order)
                Elapsed == \E order \in ProbeOrders : IntervalElapsed(id, order)
            IN  /\ id \in DOMAIN tasks'
                /\ Issued <=> (Elapsed \/ \E peer \in ProbeAuthorities : Failed(peer))
                /\ t.idx < Len(t.peers) =>
                     /\ \A peer \in ProbeAuthorities :
                          Failed(peer) =>
                             tasks'[id].fut = (t.fut \ {peer}) \cup {t.peers[t.idx + 1]}
                     /\ Elapsed => tasks'[id].fut = t.fut \cup {t.peers[t.idx + 1]}
                /\ (/\ t.idx = 2
                    /\ t.fut = {t.peers[2]}
                    /\ tasks'[id].pc = "select"
                    /\ tasks'[id].idx = 3
                    /\ t.peers[2] \in tasks'[id].fut) => Elapsed
                /\ (/\ t.idx = 3
                    /\ PeerResponse(id, t.peers[3], MAX_CERTIFICATES_TO_FETCH)) =>
                        /\ tasks'[id].pc = "send"
                        /\ tasks'[id].response = MAX_CERTIFICATES_TO_FETCH]_vars

\* The first call of the pass has failed, the second is outstanding and the
\* third has been issued.
C22_Witness ==
    \E id \in DOMAIN tasks :
        /\ tasks[id].pc = "select"
        /\ tasks[id].idx = 3
        /\ tasks[id].fut = {tasks[id].peers[2], tasks[id].peers[3]}

\* C23: a task that is probing has at least one and at most |committee| - 1
\* calls outstanding, each to a primary of the committee it was spawned
\* with other than this primary; a task that is not probing (not started,
\* or past the first successful response) has no call outstanding.
C23_BoundedFanOut ==
    \A id \in DOMAIN tasks :
        LET t == tasks[id]
        IN  IF t.pc = "select"
            THEN /\ t.fut # {}
                 /\ Cardinality(t.fut) <= Cardinality(t.committee.members) - 1
                 /\ t.fut \subseteq t.committee.members
                 /\ Name \notin t.fut
            ELSE t.fut = {}

\* A task spawned under the committee of three has calls outstanding to both
\* its peers while the waiter holds the committee of two.
C23_Witness ==
    \E id \in DOMAIN tasks :
        /\ tasks[id].pc = "select"
        /\ Cardinality(tasks[id].fut) = 2
        /\ Cardinality(committee.members) = 2

\* C24: a task gets the result Ok only in the step in which the core
\* signals `done` for the message of the task that it has received, the
\* send having returned Ok before; a send on the closed loopback channel
\* ends the task with ClosedChannel and queues nothing; a `done` dropped
\* without a signal, by the core that received the message or with the
\* receiver of the channel while queued, ends the waiting task with
\* ClosedChannel. A step that ends a task leaves run() and its fields as
\* they are, and run() takes out the ended task, whatever its result, and
\* keeps running.
C24_HandoffHandshake ==
    [][\A id \in DOMAIN tasks :
         /\ (/\ id \in DOMAIN tasks'
             /\ tasks[id].result # "Ok"
             /\ tasks'[id].result = "Ok") =>
                /\ tasks[id].pc = "done"
                /\ held # <<>>
                /\ Head(held).done = id
                /\ CoreDone
         /\ (loopbackClosed /\ LoopbackSend(id)) =>
                /\ tasks'[id] = Finished("ClosedChannel")
                /\ loopback' = loopback
         /\ (/\ tasks[id].pc = "done"
             /\ \/ CoreDropDone /\ Head(held).done = id
                \/ CoreClose /\ Queued(loopback, id) # {}) =>
                tasks'[id] = Finished("ClosedChannel")
         /\ (/\ InFlight(tasks[id])
             /\ id \in DOMAIN tasks'
             /\ ~InFlight(tasks'[id])) =>
                /\ tasks'[id].result \in {"Ok", "ClosedChannel",
                                         "TooManyFetchedCertificatesReturned"}
                /\ UNCHANGED <<running, committee, targets>>
         /\ (tasks[id].pc = "finished" /\ running) =>
                /\ ENABLED HandleTaskEnd(id, TRUE)
                /\ (\E kickOk \in BOOLEAN : HandleTaskEnd(id, kickOk)) => running']_vars

\* While the loopback channel is open, a task has ended with ClosedChannel,
\* its `done` dropped without a signal, and run() is running.
C24_Witness ==
    /\ running
    /\ ~loopbackClosed
    /\ \E id \in DOMAIN tasks : tasks[id].result = "ClosedChannel"

\* C25: over a store whose reads never fail, whenever run() is between two
\* events with a target pending, the task collection holds a task: one in
\* flight, or one that has ended and that run() is about to take out, with
\* the kick() that follows. This holds in particular right after a
\* certificate was dropped by the comparison with the existing target.
C25_NoStall ==
    (running /\ targets # Empty) =>
        \E id \in DOMAIN tasks :
            \/ InFlight(tasks[id])
            \/ tasks[id].pc = "finished" /\ ENABLED HandleTaskEnd(id, TRUE)

\* A certificate was dropped because its author has a target at its round
\* or above, while the task launched for that target is probing.
C25_Witness ==
    /\ last.kind = "dropped"
    /\ \E a \in DOMAIN targets : committed[a] < targets[a]
    /\ \E id \in DOMAIN tasks : tasks[id].pc = "select"

====
